---- MODULE Spec2Model ----
(***************************************************************************)
(* Model of the task board: the Task entity and the TaskModel store        *)
(* (src/js/models/Task.js), the view's rendering of task items             *)
(* (src/unnamed/part_001), the command interface of TaskController         *)
(* (src/js/controllers/modal.js) and the drag-and-drop coordinator         *)
(* (src/js/utils/DragDropHandler.js).                                      *)
(*                                                                         *)
(* Encoding of JavaScript values                                           *)
(*   - free text is a sequence of one-character strings; NullStr stands    *)
(*     for the value null given where a string is expected;                *)
(*   - a Date is its time value in milliseconds, InvalidDate for NaN;      *)
(*   - a JSON record is a record of tagged fields; the tag t is the        *)
(*     field's typeof ("undefined" when the property is absent);           *)
(*   - a JSON text is the value it parses to, or kind "malformed";         *)
(*   - ids are counted in units of 1/IdScale millisecond, so that          *)
(*     Date.now() + Math.random() is an integer of the model.              *)
(***************************************************************************)
EXTENDS Integers, Sequences, FiniteSets, TLC

\* Bounds of the model.
MaxTasks == 2
MaxTicks == 1
TickMs == 600
IdScale == 2
MaxImport == 2
MaxSteps == 2

VARIABLES tasks, savedTasks, observers, clock, dom, drag, hist, steps,
          unsubscribed, held, timers, listeners

vars == <<tasks, savedTasks, observers, clock, dom, drag, hist, steps,
          unsubscribed, held, timers, listeners>>

\* The parts of the state outside the store, its view and the coordinator's
\* gesture: the array a caller holds, the timers and the drag listeners.
shell == <<held, timers, listeners>>

----------------------------------------------------------------------------
\* Strings

NullStr == <<"null">>

RECURSIVE TrimLeft(_)
TrimLeft(s) == IF s # <<>> /\ Head(s) = " " THEN TrimLeft(Tail(s)) ELSE s

RECURSIVE TrimRight(_)
TrimRight(s) ==
    IF s # <<>> /\ s[Len(s)] = " " THEN TrimRight(SubSeq(s, 1, Len(s) - 1)) ELSE s

\* String.prototype.trim
Trim(s) == TrimRight(TrimLeft(s))

----------------------------------------------------------------------------
\* Dates and JSON fields

InvalidDate == -1

ValidStatuses == {"todo", "progress", "done"}
ValidLevels == {"baixa", "normal", "urgente"}

JNum(n) == [t |-> "number", n |-> n]
JNoNum == [t |-> "undefined", n |-> 0]
JText(s) == [t |-> "string", s |-> s]
JNoText == [t |-> "undefined", s |-> <<>>]
JWord(a) == [t |-> "string", a |-> a]
JNoWord == [t |-> "undefined", a |-> ""]
JIso(sec, ms) == [t |-> "iso", sec |-> sec, ms |-> ms]
JNoDate == [t |-> "undefined", sec |-> 0, ms |-> 0]
JNullDate == [t |-> "null", sec |-> 0, ms |-> 0]

\* Date.prototype.toISOString of a valid date: seconds and milliseconds.
ToISOString(d) == JIso(d \div 1000, d % 1000)

\* new Date(v) for a JSON value v: an ISO string parses to its instant, null
\* converts to 0, undefined gives an invalid date.
NewDate(v) ==
    CASE v.t = "iso" -> v.sec * 1000 + v.ms
      [] v.t = "null" -> 0
      [] OTHER -> InvalidDate

----------------------------------------------------------------------------
\* Task entity

GenerateId(now, r) == now * IdScale + r

NewTask(description, now, r) ==
    [id |-> GenerateId(now, r),
     description |-> Trim(description),
     status |-> "todo",
     createdAt |-> now,
     updatedAt |-> now,
     detailedDescription |-> <<>>,
     urgencyLevel |-> "normal",
     priority |-> "normal"]

\* Mutant: the comparison with the current status is missing.
TaskUpdateStatusNoCompare(t, newStatus, now) ==
    IF newStatus \notin ValidStatuses
    THEN [task |-> t, ret |-> FALSE]
    ELSE [task |-> [t EXCEPT !.status = newStatus, !.updatedAt = now],
          ret |-> TRUE]

TaskUpdateStatus(t, newStatus, now) ==
    IF newStatus \notin ValidStatuses
    THEN [task |-> t, ret |-> FALSE]
    ELSE IF t.status # newStatus
         THEN [task |-> [t EXCEPT !.status = newStatus, !.updatedAt = now],
               ret |-> TRUE]
         ELSE [task |-> t, ret |-> FALSE]

\* newDescription is a string here; null makes .trim() raise in the caller.
TaskUpdateDescription(t, newDescription, now) ==
    LET trimmedDescription == Trim(newDescription) IN
    IF trimmedDescription = <<>>
    THEN [task |-> t, ret |-> FALSE]
    ELSE IF t.description # trimmedDescription
         THEN [task |-> [t EXCEPT !.description = trimmedDescription,
                                  !.updatedAt = now],
               ret |-> TRUE]
         ELSE [task |-> t, ret |-> FALSE]

\* (newDetailedDescription || '').trim(): null and '' both give ''.
TaskUpdateDetailedDescription(t, newDetailedDescription, now) ==
    LET trimmedDescription ==
            IF newDetailedDescription = NullStr THEN <<>>
            ELSE Trim(newDetailedDescription) IN
    IF t.detailedDescription # trimmedDescription
    THEN [task |-> [t EXCEPT !.detailedDescription = trimmedDescription,
                             !.updatedAt = now],
          ret |-> TRUE]
    ELSE [task |-> t, ret |-> FALSE]

\* A variant without the check of the level against validLevels.
TaskUpdateUrgencyLevelNoCheck(t, newUrgencyLevel, now) ==
    IF t.urgencyLevel # newUrgencyLevel
    THEN [task |-> [t EXCEPT !.urgencyLevel = newUrgencyLevel, !.updatedAt = now],
          ret |-> TRUE]
    ELSE [task |-> t, ret |-> FALSE]

TaskUpdateUrgencyLevel(t, newUrgencyLevel, now) ==
    IF newUrgencyLevel \notin ValidLevels
    THEN [task |-> t, ret |-> FALSE]
    ELSE IF t.urgencyLevel # newUrgencyLevel
         THEN [task |-> [t EXCEPT !.urgencyLevel = newUrgencyLevel,
                                  !.updatedAt = now],
               ret |-> TRUE]
         ELSE [task |-> t, ret |-> FALSE]

\* A variant that refreshes updatedAt whenever the priority is valid.
TaskUpdatePriorityAlwaysStamps(t, newPriority, now) ==
    IF newPriority \notin ValidLevels
    THEN [task |-> t, ret |-> FALSE]
    ELSE [task |-> [t EXCEPT !.priority = newPriority, !.updatedAt = now],
          ret |-> t.priority # newPriority]

TaskUpdatePriority(t, newPriority, now) ==
    IF newPriority \notin ValidLevels
    THEN [task |-> t, ret |-> FALSE]
    ELSE IF t.priority # newPriority
         THEN [task |-> [t EXCEPT !.priority = newPriority, !.updatedAt = now],
               ret |-> TRUE]
         ELSE [task |-> t, ret |-> FALSE]

\* toISOString raises RangeError on an invalid date.
ToJSONThrows(t) == t.createdAt = InvalidDate \/ t.updatedAt = InvalidDate

ToJSON(t) ==
    [obj |-> TRUE,
     id |-> JNum(t.id),
     description |-> JText(t.description),
     detailedDescription |-> JText(t.detailedDescription),
     urgencyLevel |-> JWord(t.urgencyLevel),
     priority |-> JWord(t.priority),
     status |-> JWord(t.status),
     createdAt |-> ToISOString(t.createdAt),
     updatedAt |-> ToISOString(t.updatedAt)]

\* x || dflt for a text field: undefined and "" are falsy.
TextOr(v, dflt) == IF v.t = "undefined" \/ v.s = <<>> THEN dflt ELSE v.s
WordOr(v, dflt) == IF v.t = "undefined" \/ v.a = "" THEN dflt ELSE v.a

FromJSON(data) ==
    [id |-> data.id.n,
     description |-> data.description.s,
     detailedDescription |-> TextOr(data.detailedDescription, <<>>),
     urgencyLevel |-> WordOr(data.urgencyLevel, "normal"),
     priority |-> WordOr(data.priority, "normal"),
     status |-> data.status.a,
     createdAt |-> NewDate(data.createdAt),
     updatedAt |-> NewDate(data.updatedAt)]

IsValidTaskData(data) ==
    /\ data.obj
    /\ data.id.t = "number"
    /\ data.description.t = "string"
    /\ Trim(data.description.s) # <<>>
    /\ data.status.t = "string" /\ data.status.a \in ValidStatuses
    /\ data.detailedDescription.t \in {"undefined", "string"}
    /\ (data.urgencyLevel.t = "undefined"
        \/ (data.urgencyLevel.t = "string" /\ data.urgencyLevel.a \in ValidLevels))
    /\ (data.priority.t = "undefined"
        \/ (data.priority.t = "string" /\ data.priority.a \in ValidLevels))

----------------------------------------------------------------------------
\* TaskModel: m is the store, [tasks, saved, observers]; every command gives
\* an outcome [tasks, saved, ret, saves, updates, msg]: the task sequence and
\* snapshot it leaves, what it returns ("true", "false", or "raised" when an
\* exception leaves it), the number of snapshots it wrote, the number of
\* observer update() calls it made, and the type of the message shown by
\* view.showMessage ("none" when there is none; the store shows none).

MapSeq(s, F(_)) == [i \in 1..Len(s) |-> F(s[i])]

NoSnapshot == [present |-> FALSE, items |-> <<>>]

Out(ts, sv, ret, w, n) ==
    [tasks |-> ts, saved |-> sv, ret |-> ret, saves |-> w, updates |-> n,
     msg |-> "none", calls |-> <<>>]

\* A command that returns false before it saves or notifies.
Fail(ts, sv) == Out(ts, sv, "false", 0, 0)

SaveThrows(ts) == \E i \in 1..Len(ts) : ToJSONThrows(ts[i])

SavedOf(ts) == [present |-> TRUE, items |-> MapSeq(ts, ToJSON)]

\* The values handed to addObserver: the view, a second observer, an observer
\* whose update() throws, an object without an update function, and null.
ObserverInputs == {"view", "logger", "faulty", "noUpdate", "null"}

\* observer && typeof observer.update === 'function'
HasUpdate(o) == o \notin {"noUpdate", "null"}

UpdateThrows(o) == o = "faulty"

\* A variant of notifyObservers without the try/catch around update(): the
\* first exception ends the loop and leaves the method.
NotifyObserversNoCatch(obs) ==
    LET bad == {i \in 1..Len(obs) : UpdateThrows(obs[i])} IN
    IF bad = {} THEN [calls |-> obs, raised |-> FALSE]
    ELSE [calls |-> SubSeq(obs, 1, CHOOSE i \in bad : \A j \in bad : i <= j),
          raised |-> TRUE]

\* notifyObservers: calls is the observers whose update() was invoked, in
\* the order of the invocations; an exception of update() is caught.
NotifyObservers(obs) == [calls |-> obs, raised |-> FALSE]

\* this.saveTasks(); this.notifyObservers(); return true, with the task
\* sequence already set to ts.
SaveNotifyReturn(m, ts) ==
    IF SaveThrows(ts)
    THEN Out(ts, m.saved, "raised", 0, 0)
    ELSE LET n == NotifyObservers(m.observers) IN
         [Out(ts, SavedOf(ts), IF n.raised THEN "raised" ELSE "true", 1,
              Len(n.calls))
            EXCEPT !.calls = n.calls]

\* A variant of addObserver that pushes every value that is not null.
ModelAddObserverAnyObject(obs, observer) ==
    IF observer # "null"
    THEN [observers |-> Append(obs, observer), ret |-> "undefined"]
    ELSE [observers |-> obs, ret |-> "undefined"]

ModelAddObserver(obs, observer) ==
    IF HasUpdate(observer)
    THEN [observers |-> Append(obs, observer), ret |-> "undefined"]
    ELSE [observers |-> obs, ret |-> "undefined"]

\* Array.prototype.indexOf: the 0-based index of the first occurrence, or -1.
IndexOf(obs, observer) ==
    IF \E i \in 1..Len(obs) : obs[i] = observer
    THEN (CHOOSE i \in 1..Len(obs) :
            obs[i] = observer /\ \A j \in 1..(i - 1) : obs[j] # observer) - 1
    ELSE -1

ModelRemoveObserver(obs, observer) ==
    LET index == IndexOf(obs, observer) IN
    IF index > -1
    THEN SubSeq(obs, 1, index) \o SubSeq(obs, index + 2, Len(obs))
    ELSE obs

\* loadTasks: saved is this._savedTasks of the instance being constructed.
LoadTasks(saved) ==
    IF saved.present THEN MapSeq(saved.items, FromJSON) ELSE <<>>

\* new TaskModel(): _savedTasks is a field of the instance, which no code has
\* assigned when the constructor calls loadTasks.
TaskModelConstructor ==
    [tasks |-> LoadTasks(NoSnapshot), saved |-> NoSnapshot, observers |-> <<>>]

\* The 0-based index of the first task with this id, -1 when there is none.
FindIndex(ts, id) ==
    IF \E i \in 1..Len(ts) : ts[i].id = id
    THEN (CHOOSE i \in 1..Len(ts) :
            ts[i].id = id /\ \A j \in 1..(i - 1) : ts[j].id # id) - 1
    ELSE -1

FindTaskById(ts, id) == FindIndex(ts, id)

Caught(o) == IF o.ret = "raised" THEN [o EXCEPT !.ret = "false"] ELSE o

ModelAddTask(m, description, now, r) ==
    IF description = NullStr \/ description = <<>> \/ Trim(description) = <<>>
    THEN Fail(m.tasks, m.saved)
    ELSE Caught(SaveNotifyReturn(m, Append(m.tasks, NewTask(description, now, r))))

ModelUpdateTask(m, id, newDescription, now) ==
    LET k == FindTaskById(m.tasks, id) IN
    IF k = -1 THEN Fail(m.tasks, m.saved)
    ELSE IF newDescription = NullStr THEN Out(m.tasks, m.saved, "raised", 0, 0)
    ELSE LET u == TaskUpdateDescription(m.tasks[k + 1], newDescription, now) IN
         IF u.ret
         THEN SaveNotifyReturn(m, [m.tasks EXCEPT ![k + 1] = u.task])
         ELSE Fail(m.tasks, m.saved)

ModelUpdateTaskStatus(m, id, newStatus, now) ==
    LET k == FindTaskById(m.tasks, id) IN
    IF k = -1 THEN Fail(m.tasks, m.saved)
    ELSE LET u == TaskUpdateStatus(m.tasks[k + 1], newStatus, now) IN
         IF u.ret
         THEN SaveNotifyReturn(m, [m.tasks EXCEPT ![k + 1] = u.task])
         ELSE Fail(m.tasks, m.saved)

ModelDeleteTask(m, id) ==
    LET kept == SelectSeq(m.tasks, LAMBDA t : t.id # id) IN
    IF Len(kept) < Len(m.tasks)
    THEN SaveNotifyReturn(m, kept)
    ELSE Fail(kept, m.saved)

ModelClearAllTasks(m) ==
    IF Len(m.tasks) > 0
    THEN SaveNotifyReturn(m, <<>>)
    ELSE Fail(<<>>, m.saved)

\* The forEach of getStats: a counter of stats is incremented when the task's
\* status is one of the properties of stats (hasOwnProperty).
RECURSIVE CountStats(_, _)
CountStats(ts, stats) ==
    IF ts = <<>> THEN stats
    ELSE CountStats(Tail(ts),
                    IF Head(ts).status \in DOMAIN stats
                    THEN [stats EXCEPT ![Head(ts).status] = @ + 1]
                    ELSE stats)

\* A variant of getStats: total starts at 0 instead of the length.
GetStatsTotalFromZero(ts) ==
    CountStats(ts, [todo |-> 0, progress |-> 0, done |-> 0, total |-> 0])

GetStats(ts) ==
    CountStats(ts, [todo |-> 0, progress |-> 0, done |-> 0, total |-> Len(ts)])

\* splice(taskIndex, 1) then splice(newIndex, 0, task), 0-based indices.
Splice(ts, taskIndex, newIndex) ==
    LET task == ts[taskIndex + 1]
        rest == SubSeq(ts, 1, taskIndex) \o SubSeq(ts, taskIndex + 2, Len(ts))
        at == IF newIndex > Len(rest) THEN Len(rest) ELSE newIndex
    IN SubSeq(rest, 1, at) \o <<task>> \o SubSeq(rest, at + 1, Len(rest))

\* Mutant: the upper bound of newIndex is off by one.
ModelMoveTaskOffByOne(m, taskId, newIndex) ==
    LET taskIndex == FindIndex(m.tasks, taskId) IN
    IF taskIndex = -1 \/ newIndex < 0 \/ newIndex > Len(m.tasks)
    THEN Fail(m.tasks, m.saved)
    ELSE SaveNotifyReturn(m, Splice(m.tasks, taskIndex, newIndex))

ModelMoveTask(m, taskId, newIndex) ==
    LET taskIndex == FindIndex(m.tasks, taskId) IN
    IF taskIndex = -1 \/ newIndex < 0 \/ newIndex >= Len(m.tasks)
    THEN Fail(m.tasks, m.saved)
    ELSE SaveNotifyReturn(m, Splice(m.tasks, taskIndex, newIndex))

\* A variant in which the handler clears the store.
NoCommandClears(m) == ModelClearAllTasks(m)

\* A handler, or a query, that calls no command of the store.
NoCommand(m) == Out(m.tasks, m.saved, "", 0, 0)

\* String.prototype.toLowerCase on the letters the descriptions use.
LowerChar(c) == CASE c = "A" -> "a" [] c = "B" -> "b" [] OTHER -> c
ToLowerCase(s) == [i \in 1..Len(s) |-> LowerChar(s[i])]

\* String.prototype.includes
Includes(s, t) ==
    \E k \in 0..(Len(s) - Len(t)) : SubSeq(s, k + 1, k + Len(t)) = t

\* The positions of ts, in order, whose task passes the test: Array.filter.
RECURSIVE FilterFrom(_, _, _)
FilterFrom(ts, k, test) ==
    IF k > Len(ts) THEN <<>>
    ELSE IF test[k] THEN <<k>> \o FilterFrom(ts, k + 1, test)
    ELSE FilterFrom(ts, k + 1, test)

\* The result of a query: array tells which array object it is, the store's
\* own ("store"), a new one ("fresh") or no array but one task ("object");
\* refs are its elements, the task objects of the store by their position.
AllRefs(ts) == [i \in 1..Len(ts) |-> i]

\* A variant that returns this.tasks itself.
ModelGetTasksAliased(m) == [array |-> "store", refs |-> AllRefs(m.tasks)]

\* [...this.tasks]
ModelGetTasks(m) == [array |-> "fresh", refs |-> AllRefs(m.tasks)]

ModelGetTasksByStatus(m, status) ==
    LET test == [k \in 1..Len(m.tasks) |-> m.tasks[k].status = status] IN
    [array |-> "fresh", refs |-> FilterFrom(m.tasks, 1, test)]

\* A variant that compares the description as it is stored.
ModelSearchTasksCaseSensitive(m, searchTerm) ==
    IF searchTerm = NullStr \/ searchTerm = <<>> \/ Trim(searchTerm) = <<>>
    THEN ModelGetTasks(m)
    ELSE LET term == Trim(ToLowerCase(searchTerm))
             test == [k \in 1..Len(m.tasks) |->
                         Includes(m.tasks[k].description, term)] IN
         [array |-> "fresh", refs |-> FilterFrom(m.tasks, 1, test)]

ModelSearchTasks(m, searchTerm) ==
    IF searchTerm = NullStr \/ searchTerm = <<>> \/ Trim(searchTerm) = <<>>
    THEN ModelGetTasks(m)
    ELSE LET term == Trim(ToLowerCase(searchTerm))
             test == [k \in 1..Len(m.tasks) |->
                         Includes(ToLowerCase(m.tasks[k].description), term)] IN
         [array |-> "fresh", refs |-> FilterFrom(m.tasks, 1, test)]

\* findTaskById hands out the task object of the store, or null.
ModelFindTaskById(m, id) ==
    LET k == FindTaskById(m.tasks, id) IN
    IF k = -1 THEN [array |-> "none", refs |-> <<>>]
    ELSE [array |-> "object", refs |-> <<k + 1>>]

\* JSON.stringify of the records of an array, and the text of other values.
JSONArray(items) == [kind |-> "array", items |-> items]
JSONMalformed == [kind |-> "malformed", items |-> <<>>]
JSONObject == [kind |-> "object", items |-> <<>>]

\* exportTasks raises when a task cannot be serialized.
ModelExportThrows(m) == SaveThrows(m.tasks)
ModelExportTasks(m) == JSONArray(MapSeq(m.tasks, ToJSON))

\* Mutant: the collection is emptied before the text is parsed.
ModelImportTasksClearsFirst(m, jsonData) ==
    IF jsonData.kind = "malformed" THEN Fail(<<>>, m.saved)
    ELSE IF jsonData.kind # "array" THEN Fail(<<>>, m.saved)
    ELSE LET validTasks == SelectSeq(jsonData.items, IsValidTaskData) IN
         Caught(SaveNotifyReturn(m, MapSeq(validTasks, FromJSON)))

ModelImportTasks(m, jsonData) ==
    IF jsonData.kind = "malformed" THEN Fail(m.tasks, m.saved)
    ELSE IF jsonData.kind # "array" THEN Fail(m.tasks, m.saved)
    ELSE LET validTasks == SelectSeq(jsonData.items, IsValidTaskData) IN
         Caught(SaveNotifyReturn(m, MapSeq(validTasks, FromJSON)))

----------------------------------------------------------------------------
\* TaskView: the task items of the three columns, rebuilt by update() from
\* the store's tasks. An item carries data-task-id (the id as text) and
\* data-status; src is the position of the task it was rendered from.

\* A JavaScript number that may be NaN or, for a property, null.
Num(v) == [k |-> "num", v |-> v]
NaN == [k |-> "nan", v |-> 0]
NullNum == [k |-> "null", v |-> 0]

\* Number.prototype.toString and parseFloat: the text of a number parses
\* back to it, "NaN" parses to NaN.
NumToString(x) ==
    IF x.k = "num" THEN [isNum |-> TRUE, num |-> x.v] ELSE [isNum |-> FALSE, num |-> 0]
ParseFloat(str) == IF str.isNum THEN Num(str.num) ELSE NaN

\* !x for a number.
Falsy(x) == x.k # "num" \/ x.v = 0

CreateTaskHTML(ts, i) ==
    [taskId |-> NumToString(Num(ts[i].id)), status |-> ts[i].status, src |-> i]

NoElement == [taskId |-> NumToString(NaN), status |-> "", src |-> 0]

Render(ts) == [i \in 1..Len(ts) |-> CreateTaskHTML(ts, i)]

----------------------------------------------------------------------------
\* Inputs of the commands

DescInputs == {NullStr, <<>>, <<" ">>, <<"a">>, <<" ", "b">>}

StatusInputs == ValidStatuses \cup {"bogus"}

IdInputs == {tasks[i].id : i \in 1..Len(tasks)} \cup {7}

IndexInputs == (0 - 1)..MaxTasks

Rec(id, description, detailed, urgency, priority, status, created, updated) ==
    [obj |-> TRUE, id |-> id, description |-> description,
     detailedDescription |-> detailed, urgencyLevel |-> urgency,
     priority |-> priority, status |-> status,
     createdAt |-> created, updatedAt |-> updated]

RecFull ==
    Rec(JNum(5), JText(<<"a">>), JText(<<"b">>), JWord("urgente"), JWord("baixa"),
        JWord("todo"), JIso(0, 600), JIso(1, 200))
\* The optional fields absent, and the id of RecFull.
RecBare ==
    Rec(JNum(5), JText(<<"b">>), JNoText, JNoWord, JNoWord,
        JWord("progress"), JIso(0, 600), JIso(0, 600))
\* Passes isValidTaskData; createdAt and updatedAt absent.
RecNoDates ==
    Rec(JNum(9), JText(<<"b">>), JNoText, JNoWord, JNoWord,
        JWord("todo"), JNoDate, JNoDate)
\* description missing.
RecNoDesc ==
    Rec(JNum(9), JNoText, JNoText, JNoWord, JNoWord,
        JWord("todo"), JIso(0, 600), JIso(0, 600))
\* The array element null.
RecNull ==
    [Rec(JNoNum, JNoText, JNoText, JNoWord, JNoWord, JNoWord, JNoDate, JNoDate)
        EXCEPT !.obj = FALSE]

ImportRecords == {RecFull, RecBare, RecNoDates, RecNoDesc, RecNull}

SeqsUpTo(S, n) == UNION {[1..k -> S] : k \in 0..n}

ImportTexts ==
    {JSONMalformed, JSONObject} \cup {JSONArray(s) : s \in SeqsUpTo(ImportRecords, MaxImport)}

----------------------------------------------------------------------------
\* State

Store == [tasks |-> tasks, saved |-> savedTasks, observers |-> observers]

NoData == [text |-> NumToString(NaN), json |-> [taskId |-> NaN, sourceStatus |-> ""]]

\* new DragDropHandler(view); data is the drag data store of the gesture and
\* dropped tells that the browser has delivered its drop event. marked is the
\* task items (by src) that carry the class dragging, the drag opacity and
\* rotation and aria-grabbed = true; highlighted tells that the drop zones
\* carry the highlight of highlightDropZones(true); over is the columns whose
\* list carries the class drag-over.
NoDrag ==
    [isDragging |-> FALSE, draggedElement |-> NoElement, draggedTaskId |-> NullNum,
     data |-> NoData, dropped |-> FALSE, marked |-> {}, highlighted |-> FALSE,
     over |-> {}]

\* No caller holds a query result.
NoHeld == [array |-> "none", refs |-> <<>>]

\* TodoApp.init has run with config.autoSave: one auto-save interval is active
\* and no debounce timer is pending.
NoTimers == [intervals |-> 1, debounce |-> FALSE, initialized |-> TRUE]

\* new DragDropHandler(view) and the first render: the drop zones and the
\* task items each carry the functions that .bind(this) made at set-up.
NoListeners == [zone |-> {"bound"}, item |-> {"bound"}, destroyed |-> FALSE]

Call(name) ==
    [name |-> name, id |-> 0, status |-> "", desc |-> <<>>, index |-> 0,
     json |-> JSONObject, at |-> 0 - 1, ret |-> "", saves |-> 0, updates |-> 0,
     msg |-> "none", observer |-> "", calls |-> <<>>, target |-> "",
     animated |-> FALSE, afterDrop |-> FALSE, confirmed |-> FALSE]

\* new TaskModel(), with the view registered as its observer.
Init ==
    /\ tasks = <<>>
    /\ savedTasks = NoSnapshot
    /\ observers = <<"view">>
    /\ clock = TickMs
    /\ dom = <<>>
    /\ drag = NoDrag
    /\ hist = Call("init")
    /\ steps = 0
    /\ unsubscribed = {}
    /\ held = NoHeld
    /\ timers = NoTimers
    /\ listeners = NoListeners

\* update() of observer v was invoked in the command of outcome o.
Notified(o, v) == \E i \in 1..Len(o.calls) : o.calls[i] = v

\* The state a command leaves: its outcome o, recorded with the call c.
Apply(o, c) ==
    /\ steps < MaxSteps
    /\ steps' = steps + 1
    /\ Len(o.tasks) <= MaxTasks
    /\ tasks' = o.tasks
    /\ savedTasks' = o.saved
    /\ dom' = IF Notified(o, "view") THEN Render(o.tasks) ELSE dom
    /\ hist' = [c EXCEPT !.at = FindIndex(tasks, c.id), !.ret = o.ret,
                         !.saves = o.saves, !.updates = o.updates,
                         !.msg = o.msg, !.calls = o.calls]
    /\ UNCHANGED <<observers, clock, drag, unsubscribed, shell>>

Tick ==
    /\ clock + TickMs <= (MaxTicks + 1) * TickMs
    /\ clock' = clock + TickMs
    /\ UNCHANGED <<tasks, savedTasks, observers, dom, drag, hist, steps,
                   unsubscribed, shell>>

AddTask ==
    \E d \in DescInputs, r \in 0..(IdScale - 1) :
        Apply(ModelAddTask(Store, d, clock, r), [Call("addTask") EXCEPT !.desc = d])

UpdateTask ==
    \E id \in IdInputs, d \in DescInputs :
        Apply(ModelUpdateTask(Store, id, d, clock),
              [Call("updateTask") EXCEPT !.id = id, !.desc = d])

UpdateTaskStatus ==
    \E id \in IdInputs, s \in StatusInputs :
        Apply(ModelUpdateTaskStatus(Store, id, s, clock),
              [Call("updateTaskStatus") EXCEPT !.id = id, !.status = s])

DeleteTask ==
    \E id \in IdInputs :
        Apply(ModelDeleteTask(Store, id), [Call("deleteTask") EXCEPT !.id = id])

MoveTask ==
    \E id \in IdInputs, i \in IndexInputs :
        Apply(ModelMoveTask(Store, id, i),
              [Call("moveTask") EXCEPT !.id = id, !.index = i])

ClearAllTasks == Apply(ModelClearAllTasks(Store), Call("clearAllTasks"))

ImportTasks ==
    \E j \in ImportTexts :
        Apply(ModelImportTasks(Store, j), [Call("importTasks") EXCEPT !.json = j])

\* importTasks(exportTasks()): nothing is imported when exportTasks raises.
ExportImport ==
    Apply(IF ModelExportThrows(Store)
          THEN Out(tasks, savedTasks, "raised", 0, 0)
          ELSE ModelImportTasks(Store, ModelExportTasks(Store)),
          Call("exportImport"))

Next ==
    \/ Tick
    \/ AddTask
    \/ UpdateTask
    \/ UpdateTaskStatus
    \/ DeleteTask
    \/ MoveTask
    \/ ClearAllTasks
    \/ ImportTasks
    \/ ExportImport

Spec == Init /\ [][Next]_vars

----------------------------------------------------------------------------
\* The store and its observers: observers are registered and unregistered
\* between the commands, and a new store may be constructed (TodoApp.restart).
\* unsubscribed holds the values whose last registry call was removeObserver.

MaxObservers == 3
MaxObserverSteps == 4

ApplyObservers(o, c) ==
    /\ steps < MaxObserverSteps
    /\ steps' = steps + 1
    /\ Len(o.tasks) <= MaxTasks
    /\ tasks' = o.tasks
    /\ savedTasks' = o.saved
    /\ dom' = IF Notified(o, "view") THEN Render(o.tasks) ELSE dom
    /\ hist' = [c EXCEPT !.at = FindIndex(tasks, c.id), !.ret = o.ret,
                         !.saves = o.saves, !.updates = o.updates,
                         !.msg = o.msg, !.calls = o.calls]
    /\ UNCHANGED <<observers, clock, drag, unsubscribed, shell>>

AddObserver ==
    \E v \in ObserverInputs :
        LET a == ModelAddObserver(observers, v) IN
        /\ steps < MaxObserverSteps
        /\ steps' = steps + 1
        /\ Len(a.observers) <= MaxObservers
        /\ observers' = a.observers
        /\ unsubscribed' = IF a.observers # observers THEN unsubscribed \ {v}
                           ELSE unsubscribed
        /\ hist' = [Call("addObserver") EXCEPT !.observer = v, !.ret = a.ret]
        /\ UNCHANGED <<tasks, savedTasks, clock, dom, drag, shell>>

RemoveObserver ==
    \E v \in ObserverInputs :
        /\ steps < MaxObserverSteps
        /\ steps' = steps + 1
        /\ observers' = ModelRemoveObserver(observers, v)
        /\ unsubscribed' = unsubscribed \cup {v}
        /\ hist' = [Call("removeObserver") EXCEPT !.observer = v,
                                                  !.ret = "undefined"]
        /\ UNCHANGED <<tasks, savedTasks, clock, dom, drag, shell>>

NewTaskModel ==
    /\ steps < MaxObserverSteps
    /\ steps' = steps + 1
    /\ tasks' = TaskModelConstructor.tasks
    /\ savedTasks' = TaskModelConstructor.saved
    /\ observers' = TaskModelConstructor.observers
    /\ unsubscribed' = {}
    /\ hist' = Call("newTaskModel")
    /\ UNCHANGED <<clock, dom, drag, shell>>

ObservedAddTask ==
    ApplyObservers(ModelAddTask(Store, <<"a">>, clock, 0),
                   [Call("addTask") EXCEPT !.desc = <<"a">>])

ObservedUpdateTaskStatus ==
    \E id \in IdInputs, st \in StatusInputs :
        ApplyObservers(ModelUpdateTaskStatus(Store, id, st, clock),
                       [Call("updateTaskStatus") EXCEPT !.id = id, !.status = st])

ObservedDeleteTask ==
    \E id \in IdInputs :
        ApplyObservers(ModelDeleteTask(Store, id),
                       [Call("deleteTask") EXCEPT !.id = id])

ObservedClearAllTasks ==
    ApplyObservers(ModelClearAllTasks(Store), Call("clearAllTasks"))

NextObservers ==
    \/ AddObserver
    \/ RemoveObserver
    \/ NewTaskModel
    \/ ObservedAddTask
    \/ ObservedUpdateTaskStatus
    \/ ObservedDeleteTask
    \/ ObservedClearAllTasks

SpecObservers == Init /\ [][NextObservers]_vars

----------------------------------------------------------------------------
\* Observers that call the registry from inside update(): "once" removes
\* itself, "remover" removes the logger and "adder" adds the logger.

MaxRoundSteps == 4

RoundObservers == {"view", "logger", "once", "remover", "adder"}

\* What update() of observer o does to this.observers.
UpdateEffect(obs, o) ==
    CASE o = "once" -> ModelRemoveObserver(obs, "once")
      [] o = "remover" -> ModelRemoveObserver(obs, "logger")
      [] o = "adder" -> ModelAddObserver(obs, "logger").observers
      [] OTHER -> obs

\* Array.prototype.forEach over the live array this.observers: the indices
\* 0..len-1 of the length at the start are visited in order, each element is
\* read when its index is reached, and an index the array no longer has is
\* skipped. k is the 1-based index to visit next.
RECURSIVE ForEachFrom(_, _, _, _)
ForEachFrom(obs, k, len, calls) ==
    IF k > len THEN [observers |-> obs, calls |-> calls]
    ELSE IF k > Len(obs) THEN ForEachFrom(obs, k + 1, len, calls)
    ELSE ForEachFrom(UpdateEffect(obs, obs[k]), k + 1, len, Append(calls, obs[k]))

\* notifyObservers with observers that change the registry in update().
NotifyObserversReentrant(obs) == ForEachFrom(obs, 1, Len(obs), <<>>)

RoundAddObserver ==
    \E v \in RoundObservers :
        LET a == ModelAddObserver(observers, v) IN
        /\ steps < MaxRoundSteps
        /\ steps' = steps + 1
        /\ Len(a.observers) <= MaxObservers
        /\ observers' = a.observers
        /\ hist' = [Call("addObserver") EXCEPT !.observer = v, !.ret = a.ret]
        /\ UNCHANGED <<tasks, savedTasks, clock, dom, drag, unsubscribed, shell>>

\* addTask('a'): the task is appended and saved, then the round runs.
RoundAddTask ==
    \E r \in 0..(IdScale - 1) :
        LET ts == Append(tasks, NewTask(<<"a">>, clock, r))
            n == NotifyObserversReentrant(observers) IN
        /\ steps < MaxRoundSteps
        /\ steps' = steps + 1
        /\ Len(ts) <= MaxTasks
        /\ Len(n.observers) <= MaxObservers
        /\ tasks' = ts
        /\ savedTasks' = SavedOf(ts)
        /\ observers' = n.observers
        /\ dom' = IF \E i \in 1..Len(n.calls) : n.calls[i] = "view"
                  THEN Render(ts) ELSE dom
        /\ hist' = [Call("addTask") EXCEPT !.desc = <<"a">>, !.ret = "true",
                        !.saves = 1, !.updates = Len(n.calls), !.calls = n.calls]
        /\ UNCHANGED <<clock, drag, unsubscribed, shell>>

NextRound ==
    \/ Tick
    \/ RoundAddObserver
    \/ RoundAddTask

SpecRound == Init /\ [][NextRound]_vars

----------------------------------------------------------------------------
\* TaskController.updateTaskStatus: the command the drop handler calls.

ControllerUpdateTaskStatus(m, taskId, newStatus, now) ==
    IF newStatus \notin ValidStatuses THEN Fail(m.tasks, m.saved)
    ELSE IF FindTaskById(m.tasks, taskId) = -1
    THEN [Fail(m.tasks, m.saved) EXCEPT !.msg = "error"]
    ELSE LET o == ModelUpdateTaskStatus(m, taskId, newStatus, now) IN
         CASE o.ret = "true" -> [o EXCEPT !.msg = "success"]
           [] o.ret = "raised" -> [o EXCEPT !.ret = "false", !.msg = "error"]
           [] OTHER -> o

\* The longest description the controller accepts.
MaxDescriptionLength == 200

\* TaskController.addTask: taskDescription is description || the trimmed
\* value of the input field.
ControllerAddTask(m, taskDescription, now, r) ==
    IF taskDescription = <<>>
    THEN [Fail(m.tasks, m.saved) EXCEPT !.msg = "error"]
    ELSE IF Len(taskDescription) > MaxDescriptionLength
    THEN [Fail(m.tasks, m.saved) EXCEPT !.msg = "error"]
    ELSE LET o == ModelAddTask(m, taskDescription, now, r) IN
         IF o.ret = "true" THEN [o EXCEPT !.msg = "success"]
         ELSE [o EXCEPT !.ret = "false", !.msg = "error"]

\* TaskController.editTask: newDescription is what prompt() returned, NullStr
\* when the user cancelled.
ControllerEditTask(m, taskId, newDescription, now) ==
    IF FindTaskById(m.tasks, taskId) = -1
    THEN [Fail(m.tasks, m.saved) EXCEPT !.msg = "error"]
    ELSE IF newDescription = NullStr THEN Fail(m.tasks, m.saved)
    ELSE IF Trim(newDescription) = <<>>
    THEN [Fail(m.tasks, m.saved) EXCEPT !.msg = "error"]
    ELSE IF Len(newDescription) > MaxDescriptionLength
    THEN [Fail(m.tasks, m.saved) EXCEPT !.msg = "error"]
    ELSE LET o == ModelUpdateTask(m, taskId, Trim(newDescription), now) IN
         CASE o.ret = "true" -> [o EXCEPT !.msg = "success"]
           [] o.ret = "raised" -> [o EXCEPT !.ret = "false", !.msg = "error"]
           [] OTHER -> [o EXCEPT !.msg = "info"]

\* TaskController.importTasks
ControllerImportTasks(m, jsonData) ==
    LET o == ModelImportTasks(m, jsonData) IN
    IF o.ret = "true" THEN [o EXCEPT !.msg = "success"]
    ELSE [o EXCEPT !.ret = "false", !.msg = "error"]

\* A variant of deleteTask that does not ask for confirmation.
ControllerDeleteTaskUnconfirmed(m, taskId, confirmed) ==
    IF FindTaskById(m.tasks, taskId) = -1
    THEN [Fail(m.tasks, m.saved) EXCEPT !.msg = "error"]
    ELSE LET o == ModelDeleteTask(m, taskId) IN
         IF o.ret = "true" THEN [o EXCEPT !.msg = "success"]
         ELSE [o EXCEPT !.ret = "false", !.msg = "error"]

\* TaskController.deleteTask: confirmed is what confirm() returned.
ControllerDeleteTask(m, taskId, confirmed) ==
    IF FindTaskById(m.tasks, taskId) = -1
    THEN [Fail(m.tasks, m.saved) EXCEPT !.msg = "error"]
    ELSE IF ~confirmed THEN Fail(m.tasks, m.saved)
    ELSE LET o == ModelDeleteTask(m, taskId) IN
         IF o.ret = "true" THEN [o EXCEPT !.msg = "success"]
         ELSE [o EXCEPT !.ret = "false", !.msg = "error"]

\* TaskController.clearAllTasks: confirmed is what confirm() returned.
ControllerClearAllTasks(m, confirmed) ==
    IF GetStats(m.tasks).total = 0
    THEN [Fail(m.tasks, m.saved) EXCEPT !.msg = "info"]
    ELSE IF ~confirmed THEN Fail(m.tasks, m.saved)
    ELSE LET o == ModelClearAllTasks(m) IN
         CASE o.ret = "true" -> [o EXCEPT !.msg = "success"]
           [] o.ret = "raised" -> [o EXCEPT !.ret = "false", !.msg = "error"]
           [] OTHER -> o

----------------------------------------------------------------------------
\* The command interface: descriptions are typed into the input field or the
\* prompt, and files are imported through TaskController.importTasks.

\* A text of n characters.
Chars(n) == [i \in 1..n |-> "a"]

ControllerDescInputs ==
    {NullStr, <<>>, <<" ">>, <<"a">>, <<" ", "b">>,
     Chars(MaxDescriptionLength), Chars(MaxDescriptionLength + 1)}

\* updatedAt earlier than createdAt.
RecBackdated ==
    Rec(JNum(6), JText(<<"a">>), JNoText, JNoWord, JNoWord,
        JWord("todo"), JIso(1, 200), JIso(0, 600))
\* A description with a leading blank.
RecPadded ==
    Rec(JNum(8), JText(<<" ", "b">>), JNoText, JNoWord, JNoWord,
        JWord("todo"), JIso(0, 600), JIso(1, 200))
\* A description longer than the controller accepts.
RecLong ==
    Rec(JNum(4), JText(Chars(MaxDescriptionLength + 1)), JNoText, JNoWord, JNoWord,
        JWord("todo"), JIso(0, 600), JIso(1, 200))

ControllerImportTexts ==
    {JSONMalformed}
        \cup {JSONArray(s) :
                s \in SeqsUpTo({RecFull, RecBackdated, RecPadded, RecLong}, MaxImport)}

AddTaskCommand ==
    \E d \in ControllerDescInputs \ {NullStr}, r \in 0..(IdScale - 1) :
        Apply(ControllerAddTask(Store, d, clock, r),
              [Call("addTask") EXCEPT !.desc = d])

EditTaskCommand ==
    \E id \in IdInputs, d \in ControllerDescInputs :
        Apply(ControllerEditTask(Store, id, d, clock),
              [Call("editTask") EXCEPT !.id = id, !.desc = d])

ImportTasksCommand ==
    \E j \in ControllerImportTexts :
        Apply(ControllerImportTasks(Store, j),
              [Call("importTasks") EXCEPT !.json = j])

NextController ==
    \/ Tick
    \/ AddTaskCommand
    \/ EditTaskCommand
    \/ ImportTasksCommand

SpecController == Init /\ [][NextController]_vars

\* The commands that ask the user before they remove tasks.
DeleteTaskCommand ==
    \E id \in IdInputs, confirmed \in BOOLEAN :
        Apply(ControllerDeleteTask(Store, id, confirmed),
              [Call("deleteTaskCommand") EXCEPT !.id = id,
                                                !.confirmed = confirmed])

ClearAllTasksCommand ==
    \E confirmed \in BOOLEAN :
        Apply(ControllerClearAllTasks(Store, confirmed),
              [Call("clearAllTasksCommand") EXCEPT !.confirmed = confirmed])

NextConfirm ==
    \/ Tick
    \/ AddTask
    \/ ImportTasks
    \/ DeleteTaskCommand
    \/ ClearAllTasksCommand

SpecConfirm == Init /\ [][NextConfirm]_vars

----------------------------------------------------------------------------
\* The entity mutators: a task of the store, created by addTask or by
\* importTasks, is handed out by findTaskById and its mutators are called.

LevelInputs == ValidLevels \cup {"alta"}

\* status, urgencyLevel, priority outside their enums.
RecBadStatus ==
    Rec(JNum(3), JText(<<"a">>), JNoText, JNoWord, JNoWord,
        JWord("bogus"), JIso(0, 600), JIso(0, 600))
RecBadUrgency ==
    Rec(JNum(3), JText(<<"a">>), JNoText, JWord("alta"), JNoWord,
        JWord("todo"), JIso(0, 600), JIso(0, 600))
RecBadPriority ==
    Rec(JNum(3), JText(<<"a">>), JNoText, JNoWord, JWord("alta"),
        JWord("todo"), JIso(0, 600), JIso(0, 600))

EntityImportTexts ==
    {JSONArray(<<r>>) :
        r \in {RecFull, RecPadded, RecBadStatus, RecBadUrgency, RecBadPriority}}

EntityMutators ==
    {"updateStatus", "updateDescription", "updateDetailedDescription",
     "updateUrgencyLevel", "updatePriority"}

\* The field each mutator is about.
TargetField ==
    [updateStatus |-> "status", updateDescription |-> "description",
     updateDetailedDescription |-> "detailedDescription",
     updateUrgencyLevel |-> "urgencyLevel", updatePriority |-> "priority"]

\* The store after a mutator of tasks[i] has returned u: nothing is saved and
\* no observer is notified.
EntityOut(i, u) ==
    Out([tasks EXCEPT ![i] = u.task], savedTasks,
        IF u.ret THEN "true" ELSE "false", 0, 0)

MaxEntitySteps == 3

ApplyEntity(o, c) ==
    /\ steps < MaxEntitySteps
    /\ steps' = steps + 1
    /\ Len(o.tasks) <= MaxTasks
    /\ tasks' = o.tasks
    /\ savedTasks' = o.saved
    /\ dom' = IF Notified(o, "view") THEN Render(o.tasks) ELSE dom
    /\ hist' = [c EXCEPT !.ret = o.ret, !.saves = o.saves,
                         !.updates = o.updates, !.calls = o.calls]
    /\ UNCHANGED <<observers, clock, drag, unsubscribed, shell>>

EntityAddTask ==
    \E r \in 0..(IdScale - 1) :
        ApplyEntity(ModelAddTask(Store, <<"a">>, clock, r),
              [Call("addTask") EXCEPT !.desc = <<"a">>])

EntityImportTasks ==
    \E j \in EntityImportTexts :
        ApplyEntity(ModelImportTasks(Store, j), [Call("importTasks") EXCEPT !.json = j])

UpdateStatus ==
    \E i \in 1..Len(tasks), s \in StatusInputs :
        ApplyEntity(EntityOut(i, TaskUpdateStatus(tasks[i], s, clock)),
              [Call("updateStatus") EXCEPT !.index = i, !.status = s])

\* updateDescription(null) raises TypeError at null.trim().
UpdateDescription ==
    \E i \in 1..Len(tasks), d \in DescInputs :
        ApplyEntity(IF d = NullStr THEN Out(tasks, savedTasks, "raised", 0, 0)
              ELSE EntityOut(i, TaskUpdateDescription(tasks[i], d, clock)),
              [Call("updateDescription") EXCEPT !.index = i, !.desc = d])

UpdateDetailedDescription ==
    \E i \in 1..Len(tasks), d \in DescInputs :
        ApplyEntity(EntityOut(i, TaskUpdateDetailedDescription(tasks[i], d, clock)),
              [Call("updateDetailedDescription") EXCEPT !.index = i, !.desc = d])

UpdateUrgencyLevel ==
    \E i \in 1..Len(tasks), l \in LevelInputs :
        ApplyEntity(EntityOut(i, TaskUpdateUrgencyLevel(tasks[i], l, clock)),
              [Call("updateUrgencyLevel") EXCEPT !.index = i, !.status = l])

UpdatePriority ==
    \E i \in 1..Len(tasks), l \in LevelInputs :
        ApplyEntity(EntityOut(i, TaskUpdatePriority(tasks[i], l, clock)),
              [Call("updatePriority") EXCEPT !.index = i, !.status = l])

NextEntity ==
    \/ Tick
    \/ EntityAddTask
    \/ EntityImportTasks
    \/ UpdateStatus
    \/ UpdateDescription
    \/ UpdateDetailedDescription
    \/ UpdateUrgencyLevel
    \/ UpdatePriority

SpecEntity == Init /\ [][NextEntity]_vars

----------------------------------------------------------------------------
\* The queries of the store and what a caller does with their results: held
\* is the array (or the task) the last query returned to the caller.

MaxQuerySteps == 3

\* A description with capital letters.
RecUpper ==
    Rec(JNum(7), JText(<<"A", "b">>), JNoText, JNoWord, JNoWord,
        JWord("done"), JIso(0, 600), JIso(0, 600))

QueryImportTexts == {JSONArray(<<RecFull, RecUpper>>), JSONArray(<<RecUpper, RecBare>>)}

SearchInputs ==
    {NullStr, <<>>, <<" ">>, <<"a">>, <<"B">>, <<" ", "a", " ">>, <<"a", "b">>,
     <<"b", "a">>}

\* An object the caller made itself: new Task('b').
ForeignTask == NewTask(<<"b">>, 0, 0)

\* The tasks of the store after the caller has given the array it holds the
\* elements refs (0 is the caller's own object): the store's sequence follows
\* only when the array is the store's own.
TasksAfterArrayWrite(ts, h, refs) ==
    IF h.array = "store"
    THEN [i \in 1..Len(refs) |-> IF refs[i] = 0 THEN ForeignTask ELSE ts[refs[i]]]
    ELSE ts

HeldAfterArrayWrite(ts, h, refs) ==
    IF h.array = "store"
    THEN [h EXCEPT !.refs = AllRefs(TasksAfterArrayWrite(ts, h, refs))]
    ELSE [h EXCEPT !.refs = refs]

RemoveAt(q, k) == SubSeq(q, 1, k - 1) \o SubSeq(q, k + 1, Len(q))
Reverse(q) == [i \in 1..Len(q) |-> q[Len(q) + 1 - i]]

\* The state a command, a query or a caller's write leaves; h is what the
\* caller holds afterwards.
ApplyQuery(o, c, h) ==
    /\ steps < MaxQuerySteps
    /\ steps' = steps + 1
    /\ Len(o.tasks) <= MaxTasks
    /\ tasks' = o.tasks
    /\ savedTasks' = o.saved
    /\ dom' = IF Notified(o, "view") THEN Render(o.tasks) ELSE dom
    /\ held' = h
    /\ hist' = [c EXCEPT !.ret = o.ret, !.saves = o.saves,
                         !.updates = o.updates, !.calls = o.calls]
    /\ UNCHANGED <<observers, clock, drag, unsubscribed, timers, listeners>>

\* addTask appends: the objects the caller holds keep their positions.
QueryAddTask ==
    \E d \in {<<"a">>, <<"A", "b">>}, r \in 0..(IdScale - 1) :
        ApplyQuery(ModelAddTask(Store, d, clock, r),
                   [Call("addTask") EXCEPT !.desc = d], held)

\* importTasks replaces every task object: what the caller held is no longer
\* of the store.
QueryImportTasks ==
    \E j \in QueryImportTexts :
        ApplyQuery(ModelImportTasks(Store, j),
                   [Call("importTasks") EXCEPT !.json = j], NoHeld)

GetTasks ==
    ApplyQuery(NoCommand(Store), Call("getTasks"), ModelGetTasks(Store))

GetTasksByStatus ==
    \E st \in StatusInputs :
        ApplyQuery(NoCommand(Store), [Call("getTasksByStatus") EXCEPT !.status = st],
                   ModelGetTasksByStatus(Store, st))

SearchTasks ==
    \E term \in SearchInputs :
        ApplyQuery(NoCommand(Store), [Call("searchTasks") EXCEPT !.desc = term],
                   ModelSearchTasks(Store, term))

FindTaskByIdQuery ==
    \E id \in IdInputs :
        ApplyQuery(NoCommand(Store), [Call("findTaskById") EXCEPT !.id = id],
                   ModelFindTaskById(Store, id))

\* The caller pushes an object of its own onto the array it holds.
CallerPush ==
    /\ held.array \in {"fresh", "store"}
    /\ Len(held.refs) < MaxTasks
    /\ LET refs == Append(held.refs, 0) IN
       ApplyQuery(Out(TasksAfterArrayWrite(tasks, held, refs), savedTasks, "", 0, 0),
                  Call("callerPush"), HeldAfterArrayWrite(tasks, held, refs))

\* The caller removes an element of the array it holds: splice(k - 1, 1).
CallerRemove ==
    /\ held.array \in {"fresh", "store"}
    /\ \E k \in 1..Len(held.refs) :
          LET refs == RemoveAt(held.refs, k) IN
          ApplyQuery(Out(TasksAfterArrayWrite(tasks, held, refs), savedTasks, "", 0, 0),
                     [Call("callerRemove") EXCEPT !.index = k],
                     HeldAfterArrayWrite(tasks, held, refs))

\* The caller reverses the array it holds.
CallerReverse ==
    /\ held.array \in {"fresh", "store"}
    /\ Len(held.refs) > 1
    /\ LET refs == Reverse(held.refs) IN
       ApplyQuery(Out(TasksAfterArrayWrite(tasks, held, refs), savedTasks, "", 0, 0),
                  Call("callerReverse"), HeldAfterArrayWrite(tasks, held, refs))

\* The caller calls updateStatus on a task object it holds: the object is
\* the store's, and the store neither saves nor notifies.
CallerWrite ==
    /\ held.array # "none"
    /\ \E k \in 1..Len(held.refs), st \in ValidStatuses :
          LET ref == held.refs[k]
              u == TaskUpdateStatus(IF ref = 0 THEN ForeignTask ELSE tasks[ref],
                                    st, clock) IN
          ApplyQuery(Out(IF ref = 0 THEN tasks ELSE [tasks EXCEPT ![ref] = u.task],
                         savedTasks, IF u.ret THEN "true" ELSE "false", 0, 0),
                     [Call("callerWrite") EXCEPT !.index = k, !.status = st,
                                                 !.target = held.array],
                     held)

NextQueries ==
    \/ Tick
    \/ QueryAddTask
    \/ QueryImportTasks
    \/ GetTasks
    \/ GetTasksByStatus
    \/ SearchTasks
    \/ FindTaskByIdQuery
    \/ CallerPush
    \/ CallerRemove
    \/ CallerReverse
    \/ CallerWrite

SpecQueries == Init /\ [][NextQueries]_vars

----------------------------------------------------------------------------
\* DragDropHandler. d is the coordinator's state; a drop target is
\* [status |-> its data-status], "" when it has none.

Columns == ValidStatuses

\* A column element carries the status of its column as data-status.
ColumnTarget(c) == [kind |-> "column", column |-> c, status |-> c]

\* A task item sits in the column of the status it was rendered with and
\* carries that status as data-status.
ItemTarget(el) == [kind |-> "item", column |-> el.status, status |-> el.status]

\* An element inside a task item (task-content, task-description, ...) or the
\* empty-state element of a column: it has no data-status.
InnerTarget(c) == [kind |-> "inner", column |-> c, status |-> ""]

HandleDragStart(d, el) ==
    LET id == ParseFloat(el.taskId) IN
    [d EXCEPT !.isDragging = TRUE,
              !.draggedElement = el,
              !.draggedTaskId = id,
              !.data = [text |-> NumToString(id),
                        json |-> [taskId |-> id, sourceStatus |-> el.status]],
              !.dropped = FALSE,
              !.marked = @ \cup {el.src},
              !.highlighted = TRUE]

\* el is the target of the dragend event.
HandleDragEnd(d, el) ==
    [d EXCEPT !.isDragging = FALSE,
              !.draggedElement = NoElement,
              !.draggedTaskId = NullNum,
              !.data = NoData,
              !.dropped = FALSE,
              !.marked = @ \ {el.src},
              !.highlighted = FALSE]

HandleDragOver(d) == d

\* target.kind = "column" stands for classList.contains('task-list').
HandleDragEnter(d, target) ==
    IF ~d.isDragging THEN d
    ELSE IF target.kind = "column" THEN [d EXCEPT !.over = @ \cup {target.column}]
    ELSE d

\* outside tells that relatedTarget is not inside the target.
HandleDragLeave(d, target, outside) ==
    IF ~d.isDragging THEN d
    ELSE IF outside /\ target.kind = "column"
    THEN [d EXCEPT !.over = @ \ {target.column}]
    ELSE d

\* What handleDrop does to the coordinator: the class drag-over of the target
\* is removed.
HandleDropCoordinator(d, target) ==
    IF ~d.isDragging THEN d
    ELSE IF target.kind = "column" THEN [d EXCEPT !.over = @ \ {target.column}]
    ELSE d

\* A variant of handleDrop without the check of isDragging.
HandleDropWhileIdle(m, d, target, now) ==
    LET taskId == ParseFloat(d.data.text)
        dragData == d.data.json
        newStatus == target.status
        untouched == Out(m.tasks, m.saved, "", 0, 0)
    IN IF Falsy(taskId) \/ newStatus = "" THEN untouched
       ELSE IF dragData.sourceStatus = newStatus THEN untouched
       ELSE ControllerUpdateTaskStatus(m, taskId.v, newStatus, now)

\* The outcome of the store command of a drop, or the store as it is when the
\* handler returns before it calls the command.
HandleDrop(m, d, target, now) ==
    LET taskId == ParseFloat(d.data.text)
        dragData == d.data.json
        newStatus == target.status
        untouched == Out(m.tasks, m.saved, "", 0, 0)
    IN IF ~d.isDragging THEN untouched
       ELSE IF Falsy(taskId) \/ newStatus = "" THEN untouched
       ELSE IF dragData.sourceStatus = newStatus THEN untouched
       ELSE ControllerUpdateTaskStatus(m, taskId.v, newStatus, now)

\* if (success) this.animateSuccessfulDrop(e.target)
DropAnimates(m, d, target, now) == HandleDrop(m, d, target, now).ret = "true"

----------------------------------------------------------------------------
\* The board: the store is filled by addTask and importTasks while no gesture
\* is under way; a gesture is dragstart on a rendered task item, then at most
\* one drop on a column, then dragend.

MaxDragSteps == 4

RecZero ==
    Rec(JNum(0), JText(<<"a">>), JNoText, JNoWord, JNoWord,
        JWord("done"), JNullDate, JIso(0, 600))

DragImportTexts ==
    {JSONArray(s) : s \in SeqsUpTo({RecFull, RecBare, RecZero, RecNoDates}, MaxImport)}

ApplyDrag(o, d, c) ==
    /\ steps < MaxDragSteps
    /\ steps' = steps + 1
    /\ Len(o.tasks) <= MaxTasks
    /\ tasks' = o.tasks
    /\ savedTasks' = o.saved
    /\ dom' = IF Notified(o, "view") THEN Render(o.tasks) ELSE dom
    /\ drag' = IF Notified(o, "view") THEN [d EXCEPT !.marked = {}] ELSE d
    /\ hist' = [c EXCEPT !.at = FindIndex(tasks, c.id), !.ret = o.ret,
                         !.saves = o.saves, !.updates = o.updates,
                         !.msg = o.msg, !.calls = o.calls]
    /\ UNCHANGED <<observers, clock, unsubscribed, shell>>

BoardAddTask ==
    /\ ~drag.isDragging
    /\ \E r \in 0..(IdScale - 1) :
          ApplyDrag(ModelAddTask(Store, <<"a">>, clock, r), drag,
                    [Call("addTask") EXCEPT !.desc = <<"a">>])

BoardImportTasks ==
    /\ ~drag.isDragging
    /\ \E j \in DragImportTexts :
          ApplyDrag(ModelImportTasks(Store, j), drag,
                    [Call("importTasks") EXCEPT !.json = j])

DragStart ==
    /\ ~drag.isDragging
    /\ \E i \in 1..Len(dom) :
          ApplyDrag(NoCommand(Store), HandleDragStart(drag, dom[i]),
                    [Call("dragStart") EXCEPT !.index = i])

\* The elements a drag event can have as its target: a column list, a task
\* item, or an element without data-status inside a column.
DropTargets ==
    {ColumnTarget(c) : c \in Columns}
        \cup {ItemTarget(dom[i]) : i \in 1..Len(dom)}
        \cup {InnerTarget(c) : c \in Columns}

Drop ==
    /\ drag.isDragging /\ ~drag.dropped
    /\ \E t \in DropTargets :
          ApplyDrag(HandleDrop(Store, drag, t, clock),
                    [HandleDropCoordinator(drag, t) EXCEPT !.dropped = TRUE],
                    [Call("drop") EXCEPT !.status = t.column, !.target = t.kind,
                        !.animated = DropAnimates(Store, drag, t, clock)])

\* The browser dispatches dragend at the item the gesture started on.
DragEnd ==
    /\ drag.isDragging
    /\ ApplyDrag(NoCommand(Store),
                 HandleDragEnd(drag, drag.draggedElement),
                 [Call("dragEnd") EXCEPT !.afterDrop = drag.dropped])

DragOver ==
    /\ drag.isDragging /\ ~drag.dropped
    /\ \E t \in DropTargets :
          ApplyDrag(NoCommand(Store), HandleDragOver(drag),
                    [Call("dragOver") EXCEPT !.status = t.column, !.target = t.kind])

DragEnter ==
    /\ drag.isDragging /\ ~drag.dropped
    /\ \E t \in DropTargets :
          ApplyDrag(NoCommand(Store), HandleDragEnter(drag, t),
                    [Call("dragEnter") EXCEPT !.status = t.column, !.target = t.kind])

DragLeave ==
    /\ drag.isDragging /\ ~drag.dropped
    /\ \E t \in DropTargets, outside \in BOOLEAN :
          ApplyDrag(NoCommand(Store), HandleDragLeave(drag, t, outside),
                    [Call("dragLeave") EXCEPT !.status = t.column, !.target = t.kind])

\* A dragstart event on another task item while the coordinator is dragging:
\* handleDragStart has no guard on isDragging.
DragStartAgain ==
    /\ drag.isDragging
    /\ \E i \in 1..Len(dom) :
          /\ i \notin drag.marked
          /\ ApplyDrag(NoCommand(Store),
                       HandleDragStart(drag, dom[i]),
                       [Call("dragStart") EXCEPT !.index = i])

NextDrag ==
    \/ Tick
    \/ BoardAddTask
    \/ BoardImportTasks
    \/ DragStart
    \/ Drop
    \/ DragEnd
    \/ DragStartAgain
    \/ DragOver
    \/ DragEnter
    \/ DragLeave

SpecDrag == Init /\ [][NextDrag]_vars

\* Gestures that never drop: the board is filled by addTask, and a gesture is
\* dragstart, any dragover, dragenter and dragleave events, then dragend.
NextGesture ==
    \/ BoardAddTask
    \/ DragStart
    \/ DragOver
    \/ DragEnter
    \/ DragLeave
    \/ DragEnd
    \/ DragStartAgain

SpecGesture == Init /\ [][NextGesture]_vars

----------------------------------------------------------------------------
\* TaskController.init and the life cycle of TodoApp: init, restart, destroy,
\* and the timers the application creates.

MaxAppSteps == 3

\* The descriptions of the five sample tasks, shortened.
SampleTasks == <<(<<"1">>), (<<"2">>), (<<"3">>), (<<"4">>), (<<"5">>)>>

\* The status initializeSampleData gives the task of (0-based) index, "" when
\* it leaves it in todo.
SampleStatus(index) ==
    CASE index = 1 -> "progress"
      [] index \in {2, 4} -> "done"
      [] OTHER -> ""

\* One round of the forEach of initializeSampleData, for the k-th sample
\* task: addTask, then updateTaskStatus with the id of the last task.
SampleStep(m, k, now, r) ==
    LET o == ModelAddTask(m, SampleTasks[k], now, r)
        m1 == [m EXCEPT !.tasks = o.tasks, !.saved = o.saved] IN
    IF o.ret # "true" \/ SampleStatus(k - 1) = "" THEN m1
    ELSE LET lastTask == m1.tasks[Len(m1.tasks)]
             u == ModelUpdateTaskStatus(m1, lastTask.id, SampleStatus(k - 1), now)
         IN [m1 EXCEPT !.tasks = u.tasks, !.saved = u.saved]

RECURSIVE SampleFrom(_, _, _, _)
SampleFrom(m, k, now, rs) ==
    IF k > Len(SampleTasks) THEN m
    ELSE SampleFrom(SampleStep(m, k, now, rs[k]), k + 1, now, rs)

\* rs are the values Math.random returns to the five constructors.
InitializeSampleData(m, now, rs) ==
    IF GetStats(m.tasks).total = 0 THEN SampleFrom(m, 1, now, rs) ELSE m

\* TaskController.init of a controller that is not initialised yet.
TaskControllerInit(m, now, rs) ==
    InitializeSampleData(
        [m EXCEPT !.observers = ModelAddObserver(m.observers, "view").observers],
        now, rs)

\* EventHandler.destroy: every pending debounce timer is cleared.
EventHandlerDestroy(tm) == [tm EXCEPT !.debounce = FALSE]

\* DragDropHandler.destroy: removeEventListener is given the methods
\* themselves, which are not the functions .bind(this) made at set-up.
RemoveEventListener(ls, fn) == ls \ {fn}

DragDropHandlerDestroy(ls) ==
    [ls EXCEPT !.zone = RemoveEventListener(@, "method"),
               !.item = RemoveEventListener(@, "method"),
               !.destroyed = TRUE]

DragDropHandlerDestroyFields(d) ==
    [d EXCEPT !.draggedElement = NoElement, !.draggedTaskId = NullNum,
              !.isDragging = FALSE]

\* TodoApp.setupAutoSave: the handle setInterval returns is not kept.
SetupAutoSave(tm) == [tm EXCEPT !.intervals = @ + 1]

\* The timers after TodoApp.destroy.
TodoAppDestroyTimers(tm) ==
    [EventHandlerDestroy(tm) EXCEPT !.initialized = FALSE]

\* The state a step of the application leaves: the store m, the rendered
\* items dm, the coordinator d, the timers tm and the drag listeners ls.
ApplyApp(m, dm, d, tm, ls, c) ==
    /\ steps < MaxAppSteps
    /\ steps' = steps + 1
    /\ tasks' = m.tasks
    /\ savedTasks' = m.saved
    /\ observers' = m.observers
    /\ dom' = dm
    /\ drag' = d
    /\ timers' = tm
    /\ listeners' = ls
    /\ hist' = c
    /\ UNCHANGED <<clock, unsubscribed, held>>

\* new TaskController(model, view) over the store as it is.
NewTaskController ==
    \E rs \in [1..Len(SampleTasks) -> 0..(IdScale - 1)] :
        LET m == TaskControllerInit(Store, clock, rs) IN
        ApplyApp(m, Render(m.tasks), drag, timers, listeners,
                 [Call("newTaskController") EXCEPT !.index = Len(tasks)])

\* TodoApp.destroy: controller.destroy (removeObserver, view.destroy), then
\* view.destroy again.
AppDestroy ==
    /\ timers.initialized
    /\ ApplyApp([Store EXCEPT !.observers = ModelRemoveObserver(observers, "view")],
                dom,
                DragDropHandlerDestroyFields(drag),
                TodoAppDestroyTimers(timers),
                DragDropHandlerDestroy(listeners),
                Call("destroy"))

\* TodoApp.restart: the destroy phase, then init with a new model, view and
\* controller, and setupApplication.
AppRestart ==
    /\ timers.initialized
    /\ \E rs \in [1..Len(SampleTasks) -> 0..(IdScale - 1)] :
          LET m == TaskControllerInit(TaskModelConstructor, clock, rs) IN
          ApplyApp(m, Render(m.tasks),
                   NoDrag,
                   [SetupAutoSave(EventHandlerDestroy(timers))
                       EXCEPT !.initialized = TRUE],
                   [DragDropHandlerDestroy(listeners) EXCEPT !.destroyed = FALSE],
                   Call("restart"))

\* A resize event reaches the debounced handler EventHandler registered.
Resize ==
    /\ timers.initialized
    /\ ApplyApp(Store, dom, drag, [timers EXCEPT !.debounce = TRUE], listeners,
                Call("resize"))

\* The pending debounce timer fires.
DebounceFires ==
    /\ timers.debounce
    /\ ApplyApp(Store, dom, drag, [timers EXCEPT !.debounce = FALSE], listeners,
                Call("debounce"))

\* An auto-save interval fires: this.model.saveTasks().
AutoSaveFires ==
    /\ timers.intervals > 0
    /\ ~SaveThrows(tasks)
    /\ ApplyApp([Store EXCEPT !.saved = SavedOf(tasks)], dom, drag, timers,
                listeners,
                [Call("autoSave") EXCEPT !.saves = timers.intervals])

AppAddTask ==
    /\ timers.initialized
    /\ \E r \in 0..(IdScale - 1) :
          LET o == ModelAddTask(Store, <<"a">>, clock, r) IN
          ApplyApp([Store EXCEPT !.tasks = o.tasks, !.saved = o.saved],
                   IF Notified(o, "view") THEN Render(o.tasks) ELSE dom,
                   drag, timers, listeners,
                   [Call("addTask") EXCEPT !.desc = <<"a">>, !.ret = o.ret])

NextApp ==
    \/ Tick
    \/ NewTaskController
    \/ AppDestroy
    \/ AppRestart
    \/ Resize
    \/ DebounceFires
    \/ AutoSaveFires
    \/ AppAddTask

SpecApp == Init /\ [][NextApp]_vars

----------------------------------------------------------------------------
\* Drag events after TaskController.destroy: the listeners that are still
\* attached deliver them to the destroyed coordinator.

\* TaskController.destroy: removeObserver(view), then view.destroy, which
\* destroys the coordinator and the event handler.
ControllerDestroy ==
    /\ ~listeners.destroyed
    /\ steps < MaxDragSteps
    /\ steps' = steps + 1
    /\ observers' = ModelRemoveObserver(observers, "view")
    /\ drag' = DragDropHandlerDestroyFields(drag)
    /\ listeners' = DragDropHandlerDestroy(listeners)
    /\ timers' = EventHandlerDestroy(timers)
    /\ hist' = Call("destroy")
    /\ UNCHANGED <<tasks, savedTasks, clock, dom, unsubscribed, held>>

\* dragstart on a task item that still carries a dragstart listener.
DestroyedDragStart ==
    /\ listeners.destroyed /\ listeners.item # {}
    /\ \E i \in 1..Len(dom) :
          ApplyDrag(NoCommand(Store), HandleDragStart(drag, dom[i]),
                    [Call("dragStart") EXCEPT !.index = i])

\* drop on a column that still carries a drop listener.
DestroyedDrop ==
    /\ listeners.destroyed /\ listeners.zone # {}
    /\ \E c \in Columns :
          ApplyDrag(HandleDrop(Store, drag, ColumnTarget(c), clock),
                    HandleDropCoordinator(drag, ColumnTarget(c)),
                    [Call("drop") EXCEPT !.status = c, !.target = "column"])

NextTeardown ==
    \/ Tick
    \/ BoardAddTask
    \/ ControllerDestroy
    \/ DestroyedDragStart
    \/ DestroyedDrop

SpecTeardown == Init /\ [][NextTeardown]_vars

----------------------------------------------------------------------------
\* Drag events that reach the drop zones while no gesture is under way, for
\* example a drag that started outside the board.

\* The data such an event carries: none, or the data of any task item.
IdlePayloads ==
    {NoData} \cup {HandleDragStart(NoDrag, dom[i]).data : i \in 1..Len(dom)}

IdleDrop ==
    /\ ~drag.isDragging
    /\ \E t \in DropTargets, p \in IdlePayloads :
          ApplyDrag(HandleDrop(Store, [drag EXCEPT !.data = p], t, clock),
                    HandleDropCoordinator(drag, t),
                    [Call("drop") EXCEPT !.status = t.column, !.target = t.kind,
                        !.id = p.json.taskId.v])

IdleDragOver ==
    /\ ~drag.isDragging
    /\ \E t \in DropTargets :
          ApplyDrag(NoCommand(Store), HandleDragOver(drag),
                    [Call("dragOver") EXCEPT !.status = t.column, !.target = t.kind])

IdleDragEnter ==
    /\ ~drag.isDragging
    /\ \E t \in DropTargets :
          ApplyDrag(NoCommand(Store), HandleDragEnter(drag, t),
                    [Call("dragEnter") EXCEPT !.status = t.column, !.target = t.kind])

IdleDragLeave ==
    /\ ~drag.isDragging
    /\ \E t \in DropTargets, outside \in BOOLEAN :
          ApplyDrag(NoCommand(Store), HandleDragLeave(drag, t, outside),
                    [Call("dragLeave") EXCEPT !.status = t.column, !.target = t.kind])

NextIdle ==
    \/ Tick
    \/ BoardAddTask
    \/ DragStart
    \/ DragEnter
    \/ DragEnd
    \/ IdleDrop
    \/ IdleDragOver
    \/ IdleDragEnter
    \/ IdleDragLeave

SpecIdle == Init /\ [][NextIdle]_vars

----------------------------------------------------------------------------
\* Claims about the store. Did(name) holds of the step in which the command
\* of that name ran; hist' holds its arguments and what it returned.

Did(name) == steps' = steps + 1 /\ hist'.name = name

Poisoned == SaveThrows(tasks)

\* C1: for every description that is non-empty after trimming, in every
\* reachable state of the store, addTask returns true, the count grows by
\* one, the new task is last with status todo, and the tasks present before
\* keep their positions and fields.
C1_AddTaskAppends ==
    [][Did("addTask") /\ hist'.desc # NullStr /\ Trim(hist'.desc) # <<>>
        => /\ hist'.ret = "true"
           /\ Len(tasks') = Len(tasks) + 1
           /\ tasks'[Len(tasks')].status = "todo"
           /\ SubSeq(tasks', 1, Len(tasks)) = tasks]_vars

StoreCommands ==
    {"addTask", "updateTask", "updateTaskStatus", "deleteTask", "moveTask",
     "clearAllTasks", "importTasks"}

\* C2: a store command that returns false or raises leaves the task sequence
\* exactly as it was before the call.
C2_FailureLeavesTasks ==
    [][steps' = steps + 1 /\ hist'.name \in StoreCommands
         /\ hist'.ret \in {"false", "raised"}
        => tasks' = tasks]_vars

\* C3: deleteTask of an id in the store returns true, decreases the count by
\* exactly one, leaves no task with that id and keeps the order of the rest;
\* of an id not in the store it returns false.
C3_DeleteRemovesOne ==
    [][Did("deleteTask")
        => IF hist'.at # -1
           THEN /\ hist'.ret = "true"
                /\ Len(tasks') = Len(tasks) - 1
                /\ FindIndex(tasks', hist'.id) = -1
                /\ tasks' = SubSeq(tasks, 1, hist'.at)
                              \o SubSeq(tasks, hist'.at + 2, Len(tasks))
           ELSE hist'.ret = "false"]_vars

\* C4: updateStatus with the task's current status returns false and leaves
\* status and updatedAt as they are; updateTaskStatus(id, current status)
\* returns false, writes no snapshot and notifies no observer.
C4_SameStatusIsNoOp ==
    [][Did("updateTaskStatus") /\ hist'.at # -1
         /\ tasks[hist'.at + 1].status = hist'.status
        => /\ TaskUpdateStatus(tasks[hist'.at + 1], hist'.status, clock)
                = [task |-> tasks[hist'.at + 1], ret |-> FALSE]
           /\ hist'.ret = "false"
           /\ tasks' = tasks
           /\ hist'.saves = 0 /\ savedTasks' = savedTasks
           /\ hist'.updates = 0 /\ dom' = dom]_vars

\* updateTaskStatus was called with the status a task older than the clock
\* already had.
C4_Witness ==
    /\ hist.name = "updateTaskStatus" /\ hist.at # -1
    /\ tasks[hist.at + 1].status = hist.status
    /\ tasks[hist.at + 1].updatedAt # clock
    /\ hist.ret = "false"

ValidRecords(json) == SelectSeq(json.items, IsValidTaskData)

\* C6: importTasks of an array mixing valid and invalid records returns true
\* and leaves exactly the valid records, in payload order, and none of the
\* tasks held before.
C6_ImportKeepsValid ==
    [][Did("importTasks") /\ hist'.json.kind = "array"
         /\ Len(ValidRecords(hist'.json)) \in 1..(Len(hist'.json.items) - 1)
        => /\ hist'.ret = "true"
           /\ Len(tasks') = Len(ValidRecords(hist'.json))
           /\ \A k \in 1..Len(tasks') :
                LET rec == ValidRecords(hist'.json)[k] IN
                /\ tasks'[k].id = rec.id.n
                /\ tasks'[k].description = rec.description.s
                /\ tasks'[k].status = rec.status.a]_vars

\* C7: importTasks of text that is not JSON, or of JSON that is not an array,
\* returns false, leaves the task sequence and the snapshot as they are and
\* notifies no observer.
C7_BadImportRejected ==
    [][Did("importTasks") /\ hist'.json.kind # "array"
        => /\ hist'.ret = "false"
           /\ tasks' = tasks
           /\ hist'.saves = 0 /\ savedTasks' = savedTasks
           /\ hist'.updates = 0 /\ dom' = dom]_vars

\* A malformed import was rejected by a store that holds tasks and a snapshot.
C7_Witness ==
    /\ hist.name = "importTasks" /\ hist.json.kind = "malformed"
    /\ hist.ret = "false"
    /\ tasks # <<>> /\ savedTasks.present

\* C8: fromJSON(toJSON(t)) has the fields of t, for every task of the store.
C8_RoundTrip ==
    \A i \in 1..Len(tasks) :
        ~ToJSONThrows(tasks[i]) /\ FromJSON(ToJSON(tasks[i])) = tasks[i]

\* C9: importTasks(exportTasks()) returns true and leaves the same tasks in
\* the same order with the same fields.
C9_ExportImportIdentity ==
    [][Did("exportImport") => hist'.ret = "true" /\ tasks' = tasks]_vars

\* C10: moveTask to the index the task is at leaves the order as it is;
\* moveTask of an unknown id, or to an index below 0 or not below the length,
\* returns false, leaves the order as it is and notifies no observer.
C10_MoveEdges ==
    [][Did("moveTask")
        => /\ (hist'.at # -1 /\ hist'.index = hist'.at => tasks' = tasks)
           /\ (hist'.at = -1 \/ hist'.index < 0 \/ hist'.index >= Len(tasks)
                => /\ hist'.ret = "false"
                   /\ tasks' = tasks
                   /\ hist'.updates = 0 /\ dom' = dom)]_vars

\* moveTask moved a task of a store of two different tasks to the index it
\* was at, and succeeded.
C10_Witness ==
    /\ hist.name = "moveTask" /\ hist.ret = "true"
    /\ hist.at # -1 /\ hist.index = hist.at
    /\ Len(tasks) = 2 /\ tasks[1] # tasks[2]

NumberWith(s) == Cardinality({i \in 1..Len(tasks) : tasks[i].status = s})

\* C11: in every reachable state of the store getStats returns total equal to
\* the number of tasks and, for each status, the number of tasks with that
\* status, so that todo + progress + done = total; a store of one task whose
\* status updateTaskStatus has just set to done has the stats
\* {todo: 0, progress: 0, done: 1, total: 1}.
C11_StatsCount ==
    LET stats == GetStats(tasks) IN
    /\ stats.total = Len(tasks)
    /\ \A s \in ValidStatuses : stats[s] = NumberWith(s)
    /\ stats.todo + stats.progress + stats.done = stats.total
    /\ (hist.name = "updateTaskStatus" /\ hist.ret = "true"
          /\ hist.status = "done" /\ Len(tasks) = 1
        => stats = [todo |-> 0, progress |-> 0, done |-> 1, total |-> 1])

\* updateTaskStatus has set the status of the only task, a todo task, to done.
C11_Witness ==
    /\ hist.name = "updateTaskStatus" /\ hist.ret = "true"
    /\ hist.status = "done" /\ Len(tasks) = 1 /\ tasks[1].status = "done"
    /\ GetStats(tasks).done = 1

----------------------------------------------------------------------------
\* Claims about notification, the observer registry and the snapshot.

Registered(v) == \E i \in 1..Len(observers) : observers[i] = v

\* The number of invocations of update() of observer v in a command.
TimesCalled(calls, v) == Cardinality({i \in 1..Len(calls) : calls[i] = v})

\* C12: clearAllTasks on an empty store returns false, writes no snapshot and
\* notifies no observer; on a store with tasks it returns true, leaves the
\* sequence empty and invokes update() of each registered observer exactly
\* once.
C12_ClearAllTasks ==
    [][Did("clearAllTasks")
        => IF tasks = <<>>
           THEN /\ hist'.ret = "false"
                /\ hist'.saves = 0 /\ savedTasks' = savedTasks
                /\ hist'.calls = <<>>
           ELSE /\ hist'.ret = "true"
                /\ tasks' = <<>>
                /\ \A v \in ObserverInputs :
                     Registered(v) => TimesCalled(hist'.calls, v) = 1]_vars

\* C13: a store command invokes update() of each registered observer exactly
\* once when it changed the task sequence or a field of a task, and of no
\* observer when it changed nothing.
C13_NotifyIffChanged ==
    [][steps' = steps + 1 /\ hist'.name \in StoreCommands
        => IF tasks' # tasks
           THEN \A v \in ObserverInputs :
                  Registered(v) => TimesCalled(hist'.calls, v) = 1
           ELSE hist'.calls = <<>>]_vars

\* C14: when update() of one observer throws during the notification of a
\* command that changed the tasks, update() of every registered observer is
\* invoked all the same, the change stays in the sequence and in the
\* snapshot, and the command returns true.
C14_ThrowingObserverIsolated ==
    [][steps' = steps + 1 /\ hist'.name \in StoreCommands
         /\ tasks' # tasks /\ (\E v \in ObserverInputs : Registered(v) /\ UpdateThrows(v))
        => /\ hist'.calls = observers
           /\ hist'.ret = "true"
           /\ savedTasks' = SavedOf(tasks')
           /\ hist'.saves = 1]_vars

\* A command changed the tasks while a throwing observer was registered
\* before another observer, which was notified.
C14_Witness ==
    /\ hist.name = "addTask" /\ hist.ret = "true"
    /\ \E i, j \in 1..Len(hist.calls) :
         i < j /\ UpdateThrows(hist.calls[i]) /\ ~UpdateThrows(hist.calls[j])
    /\ tasks # <<>>

\* C15: addObserver of a value without an update function, null included,
\* does not throw and leaves the observer list as it is; the list only ever
\* holds values whose update can be called.
C15_OnlyCallableObservers ==
    [][/\ Did("addObserver") /\ ~HasUpdate(hist'.observer)
          => hist'.ret # "raised" /\ observers' = observers
       /\ \A i \in 1..Len(observers') : HasUpdate(observers'[i])]_vars

\* addObserver was called with an object that has no update function while
\* an observer was registered.
C15_Witness ==
    /\ hist.name = "addObserver" /\ hist.observer = "noUpdate"
    /\ hist.ret = "undefined" /\ observers # <<>>

\* C16: once removeObserver(o) has returned, no later store command invokes
\* update() of o, until o is registered again.
C16_RemovedNotNotified ==
    [][steps' = steps + 1 /\ hist'.name \in StoreCommands
        => \A v \in unsubscribed : TimesCalled(hist'.calls, v) = 0]_vars

\* C17: after every store command has returned, the snapshot is the
\* serialization of the current task sequence.
C17_SnapshotIsCurrent ==
    hist.name \in StoreCommands \cup {"exportImport"}
        => /\ ~SaveThrows(tasks)
           /\ savedTasks.items = MapSeq(tasks, ToJSON)

\* C18: a TaskModel constructed after an earlier one wrote a snapshot starts
\* with the tasks of that snapshot, and with no task when there is none.
C18_NewModelLoadsSnapshot ==
    [][Did("newTaskModel") => tasks' = LoadTasks(savedTasks)]_vars

----------------------------------------------------------------------------
\* Claims about the drag gesture.

\* C5: a gesture that starts on a task item of column S and drops on column T
\* changes, when S # T, the status of exactly the task the item was rendered
\* from to T and leaves every other task and the order as they are; when
\* S = T it changes nothing, writes no snapshot and notifies no observer.
C5_DragMovesOneTask ==
    [][/\ Did("drop") /\ drag.isDragging /\ hist'.target = "column"
          => LET k == drag.draggedElement.src
                 S == drag.draggedElement.status
                 T == hist'.status
             IN IF S # T
                THEN /\ Len(tasks') = Len(tasks)
                     /\ k \in 1..Len(tasks)
                     /\ tasks'[k].status = T
                     /\ [tasks'[k] EXCEPT !.status = S, !.updatedAt = 0]
                          = [tasks[k] EXCEPT !.updatedAt = 0]
                     /\ \A i \in 1..Len(tasks) : i # k => tasks'[i] = tasks[i]
                ELSE tasks' = tasks /\ hist'.saves = 0 /\ hist'.updates = 0
       /\ Did("dragStart") \/ Did("dragEnd")
          => tasks' = tasks /\ savedTasks' = savedTasks /\ hist'.updates = 0]_vars

\* C19: every exit from Dragging, a drop on a column (status changed, same
\* column, invalid drop data) as well as a dragend without drop, leaves the
\* coordinator, once the handler has returned, with isDragging false,
\* draggedElement and draggedTaskId cleared and the drop zones without
\* highlight.
C19_ExitCleansUp ==
    hist.name \in {"drop", "dragEnd"}
        => /\ ~drag.isDragging
           /\ drag.draggedElement = NoElement
           /\ drag.draggedTaskId = NullNum
           /\ ~drag.highlighted

\* C20: a dragstart received while the coordinator is dragging cancels the
\* earlier gesture: afterwards only the new item is recorded as dragged and
\* only it carries the drag affordances, so no two items ever carry them.
C20_ReentrantStartCancels ==
    [][/\ Did("dragStart") /\ drag.isDragging
          => /\ drag'.draggedElement = dom[hist'.index]
             /\ drag'.marked = {hist'.index}
       /\ Cardinality(drag'.marked) <= 1]_vars

\* C21: a gesture that ends by dragend without a drop mutates no task, writes
\* no snapshot and notifies no observer, whatever dragover, dragenter and
\* dragleave events arrive during it: none of the handlers dragstart,
\* dragover, dragenter, dragleave and dragend touches the store.
C21_CancelledGestureLeavesStore ==
    [][steps' = steps + 1
         /\ hist'.name \in {"dragStart", "dragOver", "dragEnter", "dragLeave", "dragEnd"}
        => /\ tasks' = tasks
           /\ savedTasks' = savedTasks /\ hist'.saves = 0
           /\ hist'.calls = <<>> /\ dom' = dom]_vars

\* A gesture over a store with tasks entered a column and ended by dragend
\* without a drop.
C21_Witness ==
    /\ hist.name = "dragEnd" /\ ~hist.afterDrop
    /\ drag.over # {} /\ ~drag.isDragging
    /\ tasks # <<>>

\* C22: a drop whose target is an element nested in a column, a task item or
\* an element inside one, resolves to the status of that column and has the
\* outcome of a drop on the column element itself.
C22_NestedTargetResolves ==
    [][Did("drop") /\ drag.isDragging /\ hist'.target \in {"item", "inner"}
        => LET o == HandleDrop(Store, drag, ColumnTarget(hist'.status), clock) IN
           /\ tasks' = o.tasks
           /\ savedTasks' = o.saved
           /\ hist'.ret = o.ret]_vars

\* C23: a drop on a target without status, or with a task id that is not a
\* number, mutates no task, ends the gesture and shows an error message.
C23_InvalidDropReported ==
    [][Did("drop") /\ drag.isDragging
         /\ (hist'.target = "inner" \/ ParseFloat(drag.data.text).k # "num")
        => /\ tasks' = tasks
           /\ ~drag'.isDragging
           /\ hist'.msg = "error"]_vars

\* C24: when the status of the drop target differs from the source status of
\* the payload, a status-update command that fails surfaces an error message
\* and one that succeeds plays the success affordance.
C24_DropOutcomeSurfaced ==
    [][Did("drop") /\ drag.isDragging
         /\ hist'.target \in {"column", "item"}
         /\ ~Falsy(ParseFloat(drag.data.text))
         /\ drag.data.json.sourceStatus # hist'.status
        => IF hist'.ret = "true" THEN hist'.animated
           ELSE hist'.msg = "error"]_vars

----------------------------------------------------------------------------
\* Invariants of the tasks in the store

\* C25: in every reachable state of the store the tasks have pairwise
\* distinct ids (and no command changes the id of a task that stays).
C25_PairwiseDistinctIds ==
    \A i, j \in 1..Len(tasks) : i # j => tasks[i].id # tasks[j].id

\* C26: in every reachable state of the store every task has
\* updatedAt >= createdAt; a comparison with an invalid date is false, as
\* NaN >= NaN is.
C26_UpdatedNotBeforeCreated ==
    \A i \in 1..Len(tasks) :
        /\ tasks[i].createdAt # InvalidDate
        /\ tasks[i].updatedAt # InvalidDate
        /\ tasks[i].updatedAt >= tasks[i].createdAt

\* C27: in every reachable state of the store the description of every task
\* is non-empty and has no leading or trailing whitespace.
C27_DescriptionTrimmed ==
    \A i \in 1..Len(tasks) :
        /\ tasks[i].description # <<>>
        /\ Trim(tasks[i].description) = tasks[i].description

\* C28: after any sequence of commands of the controller every task has a
\* description of at most 200 characters, and addTask and editTask with a
\* longer description return false and leave the store unchanged.
C28_DescriptionAtMost200 ==
    [][steps' = steps + 1
        => /\ \A i \in 1..Len(tasks') :
                 Len(tasks'[i].description) <= MaxDescriptionLength
           /\ (hist'.name \in {"addTask", "editTask"}
                 /\ Len(hist'.desc) > MaxDescriptionLength
               => hist'.ret = "false" /\ tasks' = tasks
                    /\ savedTasks' = savedTasks)]_vars

\* C29: every task of the store has its status in {todo, progress, done} and
\* its urgencyLevel and priority in {baixa, normal, urgente}; updateStatus,
\* updateUrgencyLevel and updatePriority called with a value outside the enum
\* return false and change nothing.
C29_EnumsValid ==
    [][steps' = steps + 1
        => /\ \A i \in 1..Len(tasks') :
                 /\ tasks'[i].status \in ValidStatuses
                 /\ tasks'[i].urgencyLevel \in ValidLevels
                 /\ tasks'[i].priority \in ValidLevels
           /\ (\/ hist'.name = "updateStatus" /\ hist'.status \notin ValidStatuses
               \/ hist'.name \in {"updateUrgencyLevel", "updatePriority"}
                    /\ hist'.status \notin ValidLevels)
               => hist'.ret = "false" /\ tasks' = tasks]_vars

\* updateUrgencyLevel was called on a stored task with a level outside the
\* enum and returned false.
C29_Witness ==
    /\ hist.name = "updateUrgencyLevel" /\ hist.status \notin ValidLevels
    /\ hist.ret = "false"
    /\ hist.index \in 1..Len(tasks)

\* C30: each entity mutator returns true exactly when the stored value of its
\* field changed, refreshes updatedAt exactly when it returns true, and leaves
\* id, createdAt, every other field and every other task unchanged.
C30_MutatorFrame ==
    [][steps' = steps + 1 /\ hist'.name \in EntityMutators
        => LET i == hist'.index
               f == TargetField[hist'.name] IN
           /\ Len(tasks') = Len(tasks)
           /\ \A j \in 1..Len(tasks) : j # i => tasks'[j] = tasks[j]
           /\ (hist'.ret = "true") <=> (tasks'[i][f] # tasks[i][f])
           /\ hist'.ret = "true" => tasks'[i].updatedAt = clock
           /\ hist'.ret # "true" => tasks'[i].updatedAt = tasks[i].updatedAt
           /\ \A g \in DOMAIN tasks[i] \ {f, "updatedAt"} :
                 tasks'[i][g] = tasks[i][g]]_vars

\* A mutator changed its field and refreshed updatedAt to a later instant
\* than createdAt.
C30_Witness ==
    /\ hist.name \in EntityMutators /\ hist.ret = "true"
    /\ hist.index \in 1..Len(tasks)
    /\ tasks[hist.index].updatedAt = clock
    /\ tasks[hist.index].updatedAt > tasks[hist.index].createdAt

----------------------------------------------------------------------------
\* The queries of the store

\* C31: adding, removing or reordering elements of the array that getTasks,
\* searchTasks or getTasksByStatus returned never changes the task sequence
\* of the store, so a later getTasks returns what it returned before.
C31_ResultIsACopy ==
    [][steps' = steps + 1
         /\ hist'.name \in {"callerPush", "callerRemove", "callerReverse"}
        => /\ tasks' = tasks
           /\ ModelGetTasks([tasks |-> tasks', saved |-> savedTasks',
                             observers |-> observers']).refs
                = ModelGetTasks(Store).refs]_vars

\* The caller removed an element of an array a query returned; the store has
\* more tasks than the array.
C31_Witness ==
    /\ hist.name = "callerRemove"
    /\ held.array # "none"
    /\ Len(held.refs) < Len(tasks)

\* C32: a task object obtained from getTasks, searchTasks or findTaskById
\* cannot be used to change a stored task without the store saving and
\* notifying its observers.
C32_NoMutableAlias ==
    [][Did("callerWrite")
        => tasks' = tasks \/ (hist'.saves > 0 /\ hist'.updates > 0)]_vars

\* The description of t contains term, letter case ignored.
ContainsIgnoringCase(t, term) ==
    \E k \in 0..(Len(t.description) - Len(term)) :
        \A i \in 1..Len(term) :
            LowerChar(t.description[k + i]) = LowerChar(term[i])

\* q holds, in increasing order, exactly the positions of tasks in S.
ExactlyInOrder(q, S) ==
    /\ {q[i] : i \in 1..Len(q)} = S
    /\ \A i, j \in 1..Len(q) : i < j => q[i] < q[j]

\* C33: searchTasks returns, in store order, exactly the tasks whose
\* description contains the trimmed term ignoring case, and all tasks for an
\* empty, blank or missing term; getTasksByStatus(s) returns exactly the tasks
\* of status s in store order; neither changes the store nor notifies.
C33_QueriesSelect ==
    [][steps' = steps + 1 /\ hist'.name \in {"searchTasks", "getTasksByStatus"}
        => /\ tasks' = tasks /\ savedTasks' = savedTasks
           /\ hist'.saves = 0 /\ hist'.calls = <<>> /\ dom' = dom
           /\ hist'.name = "getTasksByStatus"
                => ExactlyInOrder(held'.refs,
                      {i \in 1..Len(tasks) : tasks[i].status = hist'.status})
           /\ hist'.name = "searchTasks"
                => IF hist'.desc = NullStr \/ Trim(hist'.desc) = <<>>
                   THEN held'.refs = AllRefs(tasks)
                   ELSE ExactlyInOrder(held'.refs,
                           {i \in 1..Len(tasks) :
                               ContainsIgnoringCase(tasks[i], Trim(hist'.desc))})]_vars

\* searchTasks with a term in capitals returned one of two tasks, which has
\* the term in another letter case.
C33_Witness ==
    /\ hist.name = "searchTasks" /\ hist.desc = <<"B">>
    /\ Len(tasks) = 2 /\ Len(held.refs) = 1
    /\ tasks[held.refs[1]].description = <<"A", "b">>

----------------------------------------------------------------------------
\* The application shell

\* C34: after teardown no timer the application created is active, no
\* debounce timer is pending and no auto-save interval fires, and restarts
\* never leave more than one auto-save interval running.
C34_NoTimerAfterTeardown ==
    /\ ~timers.initialized => timers.intervals = 0 /\ ~timers.debounce
    /\ timers.intervals <= 1

\* The statuses of the tasks, in store order.
StatusesOf(ts) == [i \in 1..Len(ts) |-> ts[i].status]

\* C36: a TaskController initialised over an empty store adds exactly five
\* sample tasks, each status change landing on the task just added, and ends
\* with the stats {todo: 2, progress: 1, done: 2, total: 5}; over a store that
\* holds a task it adds, removes and changes nothing.
C36_SampleData ==
    [][Did("newTaskController")
        => IF tasks = <<>>
           THEN /\ StatusesOf(tasks') = <<"todo", "progress", "done", "todo", "done">>
                /\ GetStats(tasks')
                     = [todo |-> 2, progress |-> 1, done |-> 2, total |-> 5]
           ELSE tasks' = tasks /\ savedTasks' = savedTasks]_vars

\* C39: while the coordinator is idle, drop, dragover, dragenter and dragleave
\* events on a column are ignored, whatever data they carry: the status-update
\* command is not called and the coordinator and the store stay as they are.
C39_IdleEventsIgnored ==
    [][steps' = steps + 1 /\ ~drag.isDragging
         /\ hist'.name \in {"drop", "dragOver", "dragEnter", "dragLeave"}
        => /\ drag' = drag
           /\ hist'.ret = "" /\ hist'.msg = "none"
           /\ tasks' = tasks /\ savedTasks' = savedTasks /\ dom' = dom]_vars

\* A drop arrived while the coordinator was idle, carrying the id of a task
\* of another column than the target.
C39_Witness ==
    /\ hist.name = "drop" /\ ~drag.isDragging
    /\ hist.target = "column"
    /\ \E i \in 1..Len(tasks) :
          tasks[i].id = hist.id /\ tasks[i].status # hist.status

\* C40: after DragDropHandler.destroy a dragstart or a drop delivered to the
\* elements it had set up does not change the state of the destroyed
\* coordinator, isDragging stays false, and does not call the status-update
\* command.
C40_DestroyDetaches ==
    [][steps' = steps + 1 /\ listeners.destroyed
         /\ hist'.name \in {"dragStart", "drop"}
        => /\ drag' = drag /\ ~drag'.isDragging
           /\ hist'.ret = ""]_vars

\* C35: moveTask of a known id to an index within [0, length) returns true;
\* afterwards the moved task sits at that index and the other tasks follow in
\* the order they had, none lost and none duplicated.
C35_MoveTaskPermutes ==
    [][Did("moveTask") /\ hist'.at # 0 - 1
         /\ hist'.index >= 0 /\ hist'.index < Len(tasks)
        => /\ hist'.ret = "true"
           /\ Len(tasks') = Len(tasks)
           /\ tasks'[hist'.index + 1] = tasks[hist'.at + 1]
           /\ RemoveAt(tasks', hist'.index + 1)
                = RemoveAt(tasks, hist'.at + 1)]_vars

\* C38: in one notification round update() is invoked exactly once on every
\* observer that is registered once when the round starts and is still
\* registered when the round ends, whatever the observers add or remove from
\* inside update().
C38_RoundNotifiesEachOnce ==
    [][Did("addTask")
        => \A v \in RoundObservers \ {"logger"} :
              (TimesCalled(observers, v) = 1 /\ TimesCalled(observers', v) = 1)
                 => TimesCalled(hist'.calls, v) = 1]_vars

\* C37: when the user declines the confirmation, TaskController.deleteTask
\* and TaskController.clearAllTasks return false, leave the task sequence and
\* the persisted snapshot as they were and notify no observer.
C37_DeclinedConfirmationIsNoOp ==
    [][steps' = steps + 1
         /\ hist'.name \in {"deleteTaskCommand", "clearAllTasksCommand"}
         /\ ~hist'.confirmed
        => /\ hist'.ret = "false"
           /\ tasks' = tasks /\ savedTasks' = savedTasks
           /\ hist'.saves = 0 /\ hist'.updates = 0 /\ hist'.calls = <<>>
           /\ dom' = dom]_vars

\* The user declined the removal of a task that is in the store.
C37_Witness ==
    /\ hist.name = "deleteTaskCommand" /\ ~hist.confirmed
    /\ hist.at # 0 - 1
    /\ hist.ret = "false" /\ hist.msg = "none"
    /\ tasks # <<>>

====
